---------------------------- MODULE Spec2Model ----------------------------
(***************************************************************************)
(* The article store of marklume (backend/database.py): a process-wide     *)
(* list of Article records, each backed by a Markdown file in the archive  *)
(* directory, with lazy loading of content and a periodic cache sweeper.   *)
(*                                                                         *)
(* Text is a sequence of Unicode code points, a file is a sequence of      *)
(* bytes, a title and a file name are sequences of one-character strings.  *)
(* Time is counted in minutes.                                             *)
(***************************************************************************)
EXTENDS Integers, Sequences, FiniteSets, TLC

VARIABLES
    db,             \* database.db: the list of Article records
    next_id,        \* database.next_id
    dir_exists,     \* whether the archive directory exists on disk
    fs,             \* the files of the archive directory: path -> bytes
    linesep,        \* os.linesep of the platform the process runs on
    now,            \* the wall clock, datetime.now(), in minutes
    started,        \* lifespan has run init_archive()
    issued,         \* history: the ids handed out so far, in order of issue
    faults,         \* history: the number of I/O failures so far
    ret,            \* the outcome of the last store call
    phase,          \* the position of lifespan(app) in main.py
    task,           \* the task of periodic_cleanup() that lifespan created
    runs,           \* history: id -> sweeper runs since the last access
    requests,       \* the request handlers in flight on the event loop
    running         \* the coroutine the event loop is running, or "none"

\* the state of the host: the application and its event loop
host == <<phase, task, runs, requests, running>>

vars == <<db, next_id, dir_exists, fs, linesep, now, started, issued, faults, ret,
          phase, task, runs, requests, running>>

---------------------------------------------------------------------------
(* Bounds of the model *)

MaxId == 2              \* no id above this one is issued
MaxFiles == 3           \* create is not called with this many files on disk
MaxFaults == 1          \* the disk fails at most this many times
MaxFlushed == 1         \* a failing write leaves at most this many bytes
StartMinute == 1410     \* the clock at process start: 23:30 of day 0
MaxElapsed == 60        \* the clock stops this many minutes after start
TickStep == 30          \* the clock advances in steps of this many minutes
MaxUptime == 90         \* the application runs at most this many minutes

(* Program constants *)

CACHE_EXPIRY == 30      \* timedelta(minutes=30)
SweepPeriod == 30       \* asyncio.sleep(1800)
MinutesPerDay == 24 * 60

ARCHIVE_DIR == "archive/"

\* "⚠️ 文章文件丢失，请联系管理员"
MissingPlaceholder ==
    <<9888, 65039, 32, 25991, 31456, 25991, 20214, 20002, 22833, 65292,
      35831, 32852, 31995, 31649, 29702, 21592>>

\* "⚠️ 文章加载失败，请稍后再试"
LoadFailedPlaceholder ==
    <<9888, 65039, 32, 25991, 31456, 21152, 36733, 22833, 36133, 65292,
      35831, 31245, 21518, 20877, 35797>>

---------------------------------------------------------------------------
(* Inputs *)

\* form field "title": "a!" and "a_" have the same sanitized form
Titles == { <<"a", "!">>, <<"a", "_">> }

\* form field "content": "", "\n" and "\r"
Contents == { <<>>, <<10>>, <<13>> }

\* form field "content" of an update
UpdateContents == { <<>>, <<10>> }

ArticleIds == 1..MaxId

---------------------------------------------------------------------------
(* Sequences *)

Prefix(s, k) == SubSeq(s, 1, k)

EndsWith(s, suffix) ==
    /\ Len(s) >= Len(suffix)
    /\ SubSeq(s, Len(s) - Len(suffix) + 1, Len(s)) = suffix

\* every ordering of the elements of the finite set S
Orderings(S) ==
    { o \in [1..Cardinality(S) -> S] : \A i, j \in DOMAIN o : i # j => o[i] # o[j] }

---------------------------------------------------------------------------
(* Text encoding: open(path, mode, encoding='utf-8') in text mode *)

\* UTF-8 encoding of one code point below 0x10000
EncodeChar(c) ==
    IF c < 128 THEN <<c>>
    ELSE IF c < 2048 THEN << 192 + (c \div 64), 128 + (c % 64) >>
    ELSE << 224 + (c \div 4096), 128 + ((c \div 64) % 64), 128 + (c % 64) >>

RECURSIVE Utf8Encode(_)
Utf8Encode(text) ==
    IF text = <<>> THEN <<>> ELSE EncodeChar(Head(text)) \o Utf8Encode(Tail(text))

IsCont(b) == b >= 128 /\ b < 192

\* strict UTF-8 decoding: the text, or DecodeError when the bytes are invalid
DecodeError == << -1 >>

RECURSIVE Utf8Decode(_)
Utf8Decode(bytes) ==
    IF bytes = <<>> THEN <<>>
    ELSE LET b == Head(bytes)
             n == IF b < 128 THEN 1
                  ELSE IF b >= 194 /\ b < 224 THEN 2
                  ELSE IF b >= 224 /\ b < 240 THEN 3
                  ELSE 0
         IN  IF n = 0 \/ Len(bytes) < n THEN DecodeError
             ELSE IF \E k \in 2..n : ~IsCont(bytes[k]) THEN DecodeError
             ELSE LET c == IF n = 1 THEN b
                           ELSE IF n = 2 THEN (b - 192) * 64 + (bytes[2] - 128)
                           ELSE (b - 224) * 4096 + (bytes[2] - 128) * 64
                                + (bytes[3] - 128)
                      rest == Utf8Decode(SubSeq(bytes, n + 1, Len(bytes)))
                  IN  IF (n = 3 /\ c < 2048) \/ (c >= 55296 /\ c < 57344)
                         \/ rest = DecodeError
                      THEN DecodeError
                      ELSE <<c>> \o rest

\* newline=None on write: every "\n" becomes os.linesep
RECURSIVE TranslateOut(_, _)
TranslateOut(text, sep) ==
    IF text = <<>> THEN <<>>
    ELSE (IF Head(text) = 10 THEN sep ELSE <<Head(text)>>)
         \o TranslateOut(Tail(text), sep)

\* newline=None on read (universal newlines): "\r\n" and "\r" become "\n"
RECURSIVE TranslateIn(_)
TranslateIn(text) ==
    IF text = <<>> THEN <<>>
    ELSE IF Head(text) = 13
         THEN IF Len(text) >= 2 /\ text[2] = 10
              THEN <<10>> \o TranslateIn(Tail(Tail(text)))
              ELSE <<10>> \o TranslateIn(Tail(text))
         ELSE <<Head(text)>> \o TranslateIn(Tail(text))

\* the bytes f.write(content) puts into a file opened with 'w'
WriteText(content, sep) == Utf8Encode(TranslateOut(content, sep))

\* what f.read() returns for a file opened with 'r': text, or DecodeError
ReadText(bytes) ==
    LET t == Utf8Decode(bytes)
    IN  IF t = DecodeError THEN DecodeError ELSE TranslateIn(t)


---------------------------------------------------------------------------
(* File names *)

AlnumChars == { "a", "n", "r", "t", "x", "m", "d",
                "0", "1", "2", "3", "4", "5", "6", "7", "8", "9" }

\* c.isalnum()
IsAlnum(c) == c \in AlnumChars

\* "".join(c if c.isalnum() or c in " -_" else "_" for c in title)
SafeTitle(title) ==
    [ i \in DOMAIN title |->
        IF IsAlnum(title[i]) \/ title[i] \in {" ", "-", "_"} THEN title[i] ELSE "_" ]

MdExt == << ".", "m", "d" >>

Digit(n) == CASE n = 0 -> "0" [] n = 1 -> "1" [] n = 2 -> "2" [] n = 3 -> "3"
              [] n = 4 -> "4" [] n = 5 -> "5" [] n = 6 -> "6" [] n = 7 -> "7"
              [] n = 8 -> "8" [] n = 9 -> "9"

\* str(n) for n >= 0
RECURSIVE Str(_)
Str(n) == IF n < 10 THEN <<Digit(n)>> ELSE Str(n \div 10) \o <<Digit(n % 10)>>

TwoDigits(n) == << Digit((n \div 10) % 10), Digit(n % 10) >>

\* the calendar date of a clock reading; day 0 of the clock is 31 December 2025
DateOf(t) ==
    LET day == t \div MinutesPerDay
    IN  IF day = 0 THEN [d |-> 31, m |-> 12, y |-> 25]
        ELSE [d |-> ((day - 1) % 31) + 1, m |-> 1, y |-> 26]

\* now.strftime("%d%m%y")
DateSuffix(t) ==
    TwoDigits(DateOf(t).d) \o TwoDigits(DateOf(t).m) \o TwoDigits(DateOf(t).y)

\* os.path.join(ARCHIVE_DIR, filename); a path is the directory then the name
JoinPath(filename) == <<ARCHIVE_DIR>> \o filename

\* os.path.basename(file_path)
Basename(path) == Tail(path)

\* os.path.splitext(filename)[0], for a name that ends in ".md"
Stem(filename) == SubSeq(filename, 1, Len(filename) - Len(MdExt))

\* os.path.exists(file_path)
PathExists(files, path) == path \in DOMAIN files

\* the while loop of create_new_article: the first of
\* safe_title_<date>_<counter>.md, counter = 1, 2, ..., that does not exist
RECURSIVE SuffixedPath(_, _, _, _)
SuffixedPath(files, safe_title, date_suffix, counter) ==
    LET file_path ==
            JoinPath(safe_title \o <<"_">> \o date_suffix \o <<"_">>
                     \o Str(counter) \o MdExt)
    IN  IF PathExists(files, file_path)
        THEN SuffixedPath(files, safe_title, date_suffix, counter + 1)
        ELSE file_path

\* mutant of ResolvePath: no check for an existing file
ResolvePathUnchecked(files, title, t) == JoinPath(SafeTitle(title) \o MdExt)

\* the path create_new_article resolves for a title at time t
ResolvePath(files, title, t) ==
    LET safe_title == SafeTitle(title)
        original_file_path == JoinPath(safe_title \o MdExt)
    IN  IF PathExists(files, original_file_path)
        THEN SuffixedPath(files, safe_title, DateSuffix(t), 1)
        ELSE original_file_path

\* glob.glob(os.path.join(ARCHIVE_DIR, "*.md")): "*" matches no leading dot
MdFiles(files) ==
    { p \in DOMAIN files : EndsWith(Basename(p), MdExt) /\ Head(Basename(p)) # "." }

\* the files after path holds bytes
FileWritten(files, path, bytes) ==
    [ q \in DOMAIN files \cup {path} |-> IF q = path THEN bytes ELSE files[q] ]

\* mutant of FileRemoved: the file is left on disk
FileKept(files, path) == files

\* the files after os.remove(path)
FileRemoved(files, path) == [ q \in DOMAIN files \ {path} |-> files[q] ]

---------------------------------------------------------------------------
(* The Article record (models.py) and lookups in db *)

Article(id, title, content, created_at, updated_at, file_path, last_accessed) ==
    [ id |-> id, title |-> title, content |-> content,
      created_at |-> created_at, updated_at |-> updated_at,
      file_path |-> file_path, last_accessed |-> last_accessed ]

\* the ids of the articles of a list
Ids(articles) == { articles[i].id : i \in DOMAIN articles }

\* truth value of a str
Truthy(s) == s # <<>>

Found(article_id) == \E i \in DOMAIN db : db[i].id = article_id

\* "for article in db: if article.id == article_id": the first match
IndexOf(article_id) ==
    CHOOSE i \in DOMAIN db :
        /\ db[i].id = article_id
        /\ \A j \in 1..(i - 1) : db[j].id # article_id

\* an I/O call goes as io says; every outcome but "ok" is a failure of the disk
Faulty(io) ==
    IF io = "ok"
    THEN UNCHANGED faults
    ELSE faults < MaxFaults /\ faults' = faults + 1

\* mutant of Ret: every call reports success
RetAlwaysOk(op, id, status, load, cleaned) ==
    [ op |-> op, id |-> id, status |-> "ok", load |-> load, cleaned |-> cleaned ]

\* the outcome of a store call: the function, the id it was called with (the id
\* issued, for create), how it ended ("ok", "notfound", "error" for the
\* RuntimeError of a failed write, "raised" for any other exception), what
\* the on-demand load did, and the sweeper's count of cleared articles
Ret(op, id, status, load, cleaned) ==
    [ op |-> op, id |-> id, status |-> status, load |-> load, cleaned |-> cleaned ]

---------------------------------------------------------------------------
(* The initial state: the module globals, and the disk the process finds *)

NotesPath == JoinPath(<<"n">> \o MdExt)             \* archive/n.md
TakenPath == JoinPath(<<"a", "_">> \o MdExt)        \* archive/a_.md
OtherPath == JoinPath(<<"r", ".", "t", "x", "t">>)  \* archive/r.txt

\* what the archive directory may hold when the process starts: no directory,
\* an empty one, one file "h\r\n", or a file that is not UTF-8, a file "é"
\* and a file that is no Markdown file
ArchiveNone  == [exists |-> FALSE, files |-> <<>>]
ArchiveEmpty == [exists |-> TRUE,  files |-> <<>>]
ArchiveOne   == [exists |-> TRUE,  files |-> (TakenPath :> <<104, 13, 10>>)]
ArchiveMixed ==
    [exists |-> TRUE,
     files |-> (NotesPath :> <<255>>) @@ (TakenPath :> <<195, 169>>)
               @@ (OtherPath :> <<104>>)]

InitialArchives == { ArchiveNone, ArchiveEmpty, ArchiveOne, ArchiveMixed }

\* os.linesep of the host: "\n" (POSIX); "\r\n" would be << 13, 10 >>
LineSeps == { <<10>> }

\* ctime and mtime of the files found at startup
FileTimes == { StartMinute - TickStep }

\* the sweeper task: where periodic_cleanup() stands ("none" before
\* create_task, then "sleeping", "cancelling" once task.cancel() was called,
\* "cancelled" when the CancelledError has ended it), the clock reading at
\* which its sleep ends, and history: how often it has called cleanup_cache
Task(pc, wake, count) == [ pc |-> pc, wake |-> wake, count |-> count ]

NoTask == Task("none", 0, 0)

\* a request handler in flight: the route, where its coroutine stands, its
\* arguments and the local file_path of create_new_article
Request(op, pc, id, title, content, file_path) ==
    [ op |-> op, pc |-> pc, id |-> id, title |-> title, content |-> content,
      file_path |-> file_path ]

NoRequest == Request("none", "idle", 0, <<>>, <<>>, <<>>)

\* the names of the request handlers that can be in flight at once
Handlers == { "h1", "h2" }

\* the host before the application starts
HostInit ==
    /\ phase = "startup"
    /\ task = NoTask
    /\ runs = [ id \in ArticleIds |-> 0 ]
    /\ requests = [ h \in Handlers |-> NoRequest ]
    /\ running = "none"

Init ==
    /\ HostInit
    /\ db = <<>>
    /\ next_id = 1
    /\ \E a \in InitialArchives : dir_exists = a.exists /\ fs = a.files
    /\ linesep \in LineSeps
    /\ now = StartMinute
    /\ started = FALSE
    /\ issued = <<>>
    /\ faults = 0
    /\ ret = Ret("none", 0, "ok", "none", 0)

---------------------------------------------------------------------------
(* init_archive: the startup scan *)

\* the Article registered for the k-th file of the scan
ScannedArticle(file_path, id, stat, t) ==
    Article(id,
            Stem(Basename(file_path)),
            <<>>,
            IF stat.ok THEN stat.ctime ELSE t,
            IF stat.ok THEN stat.mtime ELSE t,
            file_path,
            t)

\* md_files: the files in the order glob returned them; stat: the outcome of
\* os.path.getctime / getmtime for each of them
init_archive(md_files, stat) ==
    /\ ~started
    /\ LET failed == Cardinality({ p \in DOMAIN stat : ~stat[p].ok })
       IN  faults + failed <= MaxFaults /\ faults' = faults + failed
    /\ started' = TRUE
    /\ IF ~dir_exists
       THEN /\ dir_exists' = TRUE
            /\ UNCHANGED <<db, next_id, issued>>
       ELSE /\ db' = db \o [ k \in DOMAIN md_files |->
                               ScannedArticle(md_files[k], next_id + k - 1,
                                              stat[md_files[k]], now) ]
            /\ next_id' = next_id + Len(md_files)
            /\ issued' = issued \o [ k \in DOMAIN md_files |-> next_id + k - 1 ]
            /\ UNCHANGED dir_exists
    /\ ret' = Ret("scan", 0, "ok", "none", 0)
    /\ UNCHANGED <<fs, linesep, now>>

\* ok = FALSE: the stat raised OSError
StatOutcomes ==
    [ ok : {TRUE}, ctime : FileTimes, mtime : FileTimes ]
    \cup { [ok |-> FALSE, ctime |-> StartMinute, mtime |-> StartMinute] }

---------------------------------------------------------------------------
(* get_articles: the metadata list *)

Listing ==
    [ i \in DOMAIN db |->
        [ id |-> db[i].id, title |-> db[i].title, created_at |-> db[i].created_at,
          updated_at |-> db[i].updated_at, is_archived |-> Truthy(db[i].file_path) ] ]

get_articles ==
    /\ started
    /\ ret' = Ret("list", 0, "ok", "none", 0)
    /\ UNCHANGED <<db, next_id, dir_exists, fs, linesep, now, started, issued, faults>>

---------------------------------------------------------------------------
(* create_new_article *)

WriteOutcomes == { "ok", "open_fails", "write_fails" }

\* what a file holds after open(path, 'w') succeeded and the write of bytes
\* failed part way: some proper prefix of bytes
PartialWrites(bytes) ==
    { Prefix(bytes, k) : k \in { j \in 0..(Len(bytes) - 1) : j <= MaxFlushed } }

\* mutant of NewId: the id taken from the length of the list
NewIdFromLen == Len(db) + 1

\* the id create_new_article gives the new Article
NewId == next_id

\* mutant of Committed: the Article is registered before the file is written
CommittedBeforeWrite(io) == TRUE

\* whether create_new_article reaches the registration of the Article: the
\* RuntimeError raised for a failed write leaves the function before it
Committed(io) == io = "ok"

\* io: how open(file_path, 'w') and f.write(content) go
create_new_article(title, content, io) ==
    LET file_path == ResolvePath(fs, title, now)
        bytes == WriteText(content, linesep)
        article == Article(NewId, title, content, now, now, file_path, now)
    IN  /\ started
        /\ next_id <= MaxId
        /\ Cardinality(DOMAIN fs) < MaxFiles
        /\ Faulty(io)
        /\ CASE io = "ok" -> fs' = FileWritten(fs, file_path, bytes)
             [] io = "open_fails" -> UNCHANGED fs
             [] io = "write_fails" ->
                  \E partial \in PartialWrites(bytes) :
                      fs' = FileWritten(fs, file_path, partial)
        /\ IF Committed(io)
           THEN /\ db' = Append(db, article)
                /\ next_id' = next_id + 1
                /\ issued' = Append(issued, article.id)
           ELSE UNCHANGED <<db, next_id, issued>>
        /\ ret' = IF io = "ok"
                  THEN Ret("create", article.id, "ok", "none", 0)
                  ELSE Ret("create", 0, "error", "none", 0)
        /\ UNCHANGED <<dir_exists, linesep, now, started>>

---------------------------------------------------------------------------
(* update_article_db *)

\* mutant of UpdateApplied: the record is changed only once the file is written
UpdateAppliedAfterWrite(io) == io = "ok"

\* whether the in-memory record is changed: the assignments come before the
\* write, so they stand whatever the write does
UpdateApplied(io) == TRUE

update_article_db(article_id, title, content, io) ==
    /\ started
    /\ Faulty(io)
    /\ IF ~Found(article_id)
       THEN /\ io = "ok"
            /\ ret' = Ret("update", article_id, "notfound", "none", 0)
            /\ UNCHANGED <<db, fs>>
       ELSE LET i == IndexOf(article_id)
                bytes == WriteText(content, linesep)
            IN  /\ IF UpdateApplied(io)
                   THEN db' = [db EXCEPT ![i].title = title,
                                         ![i].content = content,
                                         ![i].updated_at = now,
                                         ![i].last_accessed = now]
                   ELSE UNCHANGED db
                /\ IF ~Truthy(db[i].file_path)
                   THEN /\ io = "ok"
                        /\ ret' = Ret("update", article_id, "ok", "none", 0)
                        /\ UNCHANGED fs
                   ELSE CASE io = "ok" ->
                               /\ fs' = FileWritten(fs, db[i].file_path, bytes)
                               /\ ret' = Ret("update", article_id, "ok", "none", 0)
                          [] io = "open_fails" ->
                               /\ ret' = Ret("update", article_id, "error", "none", 0)
                               /\ UNCHANGED fs
                          [] io = "write_fails" ->
                               /\ \E partial \in PartialWrites(bytes) :
                                     fs' = FileWritten(fs, db[i].file_path, partial)
                               /\ ret' = Ret("update", article_id, "error", "none", 0)
    /\ UNCHANGED <<next_id, dir_exists, linesep, now, started, issued>>

---------------------------------------------------------------------------
(* delete_article_db *)

RemoveOutcomes == { "ok", "remove_fails" }

\* mutant of WithoutIndex: the head of the list is dropped
WithoutIndexFirst(s, i) == Tail(s)

\* db.remove(article): the list without its i-th element
WithoutIndex(s, i) == SubSeq(s, 1, i - 1) \o SubSeq(s, i + 1, Len(s))

delete_article_db(article_id, io) ==
    /\ started
    /\ Faulty(io)
    /\ IF ~Found(article_id)
       THEN /\ io = "ok"
            /\ ret' = Ret("delete", article_id, "notfound", "none", 0)
            /\ UNCHANGED <<db, fs>>
       ELSE LET i == IndexOf(article_id)
            IN  /\ IF Truthy(db[i].file_path) /\ PathExists(fs, db[i].file_path)
                   THEN IF io = "ok"
                        THEN fs' = FileRemoved(fs, db[i].file_path)
                        ELSE UNCHANGED fs
                   ELSE io = "ok" /\ UNCHANGED fs
                /\ db' = WithoutIndex(db, i)
                /\ ret' = Ret("delete", article_id, "ok", "none", 0)
    /\ UNCHANGED <<next_id, dir_exists, linesep, now, started, issued>>

---------------------------------------------------------------------------
(* cleanup_cache: one run of the sweeper *)

\* mutant of Expired: the window is over at exactly CACHE_EXPIRY
ExpiredAtWindow(article, t) ==
    /\ article.file_path # <<>>
    /\ article.content # <<>>
    /\ t - article.last_accessed >= CACHE_EXPIRY

\* mutant of Expired: the window is twice CACHE_EXPIRY
ExpiredAfterTwoWindows(article, t) ==
    /\ article.file_path # <<>>
    /\ article.content # <<>>
    /\ t - article.last_accessed > 2 * CACHE_EXPIRY

\* the test of cleanup_cache on one article at time t
Expired(article, t) ==
    /\ Truthy(article.file_path)
    /\ Truthy(article.content)
    /\ t - article.last_accessed > CACHE_EXPIRY

\* mutant of Swept: the loop stops after the first article it clears
SweptFirstOnly(articles, t) ==
    [ i \in DOMAIN articles |->
        IF /\ articles[i].file_path # <<>>
           /\ articles[i].content # <<>>
           /\ t - articles[i].last_accessed > CACHE_EXPIRY
           /\ \A j \in 1..(i - 1) :
                 ~(/\ articles[j].content # <<>>
                   /\ t - articles[j].last_accessed > CACHE_EXPIRY)
        THEN [articles[i] EXCEPT !.content = <<>>]
        ELSE articles[i] ]

\* mutant of Swept: clearing an article counts as an access
SweptTouching(articles, t) ==
    [ i \in DOMAIN articles |->
        IF /\ articles[i].file_path # <<>>
           /\ articles[i].content # <<>>
           /\ t - articles[i].last_accessed > CACHE_EXPIRY
        THEN [articles[i] EXCEPT !.content = <<>>, !.last_accessed = t]
        ELSE articles[i] ]

\* db after a sweeper run at time t
Swept(articles, t) ==
    [ i \in DOMAIN articles |->
        IF Expired(articles[i], t)
        THEN [articles[i] EXCEPT !.content = <<>>]
        ELSE articles[i] ]

\* the counter "cleaned" of a sweeper run at time t
Cleaned(articles, t) ==
    Cardinality({ i \in DOMAIN articles : Expired(articles[i], t) })

cleanup_cache ==
    /\ started
    /\ db' = Swept(db, now)
    /\ ret' = Ret("sweep", 0, "ok", "none", Cleaned(db, now))
    /\ UNCHANGED <<next_id, dir_exists, fs, linesep, now, started, issued, faults>>

---------------------------------------------------------------------------
(* get_article *)

ReadOutcomes == { "ok", "OSError" }

\* how the on-demand load of one article ends: the kind of outcome and the
\* content assigned (for "undecodable" the UnicodeDecodeError leaves the
\* function before anything is assigned)
LoadOutcome(article, files, io) ==
    IF ~PathExists(files, article.file_path)
    THEN [kind |-> "missing", content |-> MissingPlaceholder]
    ELSE IF io = "OSError"
    THEN [kind |-> "failed", content |-> LoadFailedPlaceholder]
    ELSE IF ReadText(files[article.file_path]) = DecodeError
    THEN [kind |-> "undecodable", content |-> article.content]
    ELSE [kind |-> "loaded", content |-> ReadText(files[article.file_path])]

\* mutant of NeedsLoad: the file is read on every lookup
NeedsLoadAlways(article) == Truthy(article.file_path)

\* whether get_article reads the file of this article
NeedsLoad(article) == Truthy(article.file_path) /\ ~Truthy(article.content)

get_article(article_id, io) ==
    /\ started
    /\ Faulty(io)
    /\ IF ~Found(article_id)
       THEN /\ io = "ok"
            /\ ret' = Ret("get", article_id, "notfound", "none", 0)
            /\ UNCHANGED db
       ELSE LET i == IndexOf(article_id)
            IN  IF NeedsLoad(db[i])
                THEN LET load == LoadOutcome(db[i], fs, io)
                     IN  /\ load.kind = "missing" => io = "ok"
                         /\ IF load.kind = "undecodable"
                            THEN /\ ret' = Ret("get", article_id, "raised", load.kind, 0)
                                 /\ UNCHANGED db
                            ELSE /\ db' = [db EXCEPT ![i].content = load.content,
                                                     ![i].last_accessed = now]
                                 /\ ret' = Ret("get", article_id, "ok", load.kind, 0)
                ELSE /\ io = "ok"
                     /\ db' = [db EXCEPT ![i].last_accessed = now]
                     /\ ret' = Ret("get", article_id, "ok", "none", 0)
    /\ UNCHANGED <<next_id, dir_exists, fs, linesep, now, started, issued>>

---------------------------------------------------------------------------
(* The clock *)

Tick ==
    /\ now + TickStep <= StartMinute + MaxElapsed
    /\ now' = now + TickStep
    /\ UNCHANGED <<db, next_id, dir_exists, fs, linesep, started, issued, faults, ret>>
    /\ UNCHANGED host

---------------------------------------------------------------------------
(* The specification: the startup scan, then store calls in any order *)

Scan ==
    /\ \E md_files \in Orderings(MdFiles(fs)) :
          \E stat \in [MdFiles(fs) -> StatOutcomes] : init_archive(md_files, stat)
    /\ UNCHANGED host

List == get_articles /\ UNCHANGED host

Create ==
    /\ \E title \in Titles, content \in Contents, io \in WriteOutcomes :
          create_new_article(title, content, io)
    /\ UNCHANGED host

Update ==
    /\ \E article_id \in ArticleIds, title \in Titles, content \in UpdateContents,
          io \in WriteOutcomes :
          update_article_db(article_id, title, content, io)
    /\ UNCHANGED host

Delete ==
    /\ \E article_id \in ArticleIds, io \in RemoveOutcomes :
          delete_article_db(article_id, io)
    /\ UNCHANGED host

Sweep == cleanup_cache /\ UNCHANGED host

Get ==
    /\ \E article_id \in ArticleIds, io \in ReadOutcomes : get_article(article_id, io)
    /\ UNCHANGED host

Next == Scan \/ List \/ Create \/ Update \/ Delete \/ Sweep \/ Get \/ Tick

Spec == Init /\ [][Next]_vars

---------------------------------------------------------------------------
(* The same store on either kind of host *)

\* os.linesep of the hosts Python runs on: "\n" (POSIX) and "\r\n" (Windows)
HostLineSeps == { <<10>>, <<13, 10>> }

\* the archives the portable specification starts from
PortableArchives == { ArchiveEmpty }

PortableInit ==
    /\ HostInit
    /\ db = <<>>
    /\ next_id = 1
    /\ \E a \in PortableArchives : dir_exists = a.exists /\ fs = a.files
    /\ linesep \in HostLineSeps
    /\ now = StartMinute
    /\ started = FALSE
    /\ issued = <<>>
    /\ faults = 0
    /\ ret = Ret("none", 0, "ok", "none", 0)

PortableSpec == PortableInit /\ [][Next]_vars

---------------------------------------------------------------------------
(* The application (main.py): lifespan, the sweeper task and the routes *)

\* the module globals of database.py and the disk
store == <<db, next_id, dir_exists, fs, linesep, now, started, issued, faults, ret>>

\* ADMIN_KEY = secrets.token_urlsafe(32): the secret of this process
ADMIN_KEY == "secret"

\* the cookie marklume_admin_key of a request: the secret, another value, or
\* no cookie at all (APIKeyCookie with auto_error=False then yields None)
Cookies == { ADMIN_KEY, "guess", "None" }

\* mutant of validate_admin_key: any cookie passes
validate_admin_key_present(admin_key) == admin_key # "None"

\* validate_admin_key: whether the dependency lets the request through
validate_admin_key(admin_key) == admin_key = ADMIN_KEY

\* the HTTPException 403 of validate_admin_key: the route's body is not run
Forbidden(op, id) ==
    /\ ret' = Ret(op, id, "forbidden", "none", 0)
    /\ UNCHANGED <<db, next_id, dir_exists, fs, linesep, now, started, issued, faults>>

\* the article whose last_accessed the call that has just returned has set
Accessed ==
    IF /\ ret'.op \in {"get", "update", "create"}
       /\ ret'.status \in {"ok", "error"}
       /\ ret'.id \in ArticleIds
    THEN {ret'.id}
    ELSE {}

\* a route: served between startup and shutdown; an access resets the count
\* of sweeper runs of its article
Served ==
    /\ phase = "serving"
    /\ runs' = [ id \in ArticleIds |->
                    IF id \in Accessed \/ id \notin Ids(db') THEN 0 ELSE runs[id] ]
    /\ UNCHANGED <<phase, task, requests, running>>

\* lifespan up to its yield: init_archive(), then create_task; the new task
\* runs periodic_cleanup() up to its first await asyncio.sleep(1800)
lifespan_startup ==
    /\ phase = "startup"
    /\ \E md_files \in Orderings(MdFiles(fs)) :
          \E stat \in [MdFiles(fs) -> StatOutcomes] : init_archive(md_files, stat)
    /\ phase' = "serving"
    /\ task' = Task("sleeping", now + SweepPeriod, 0)
    /\ UNCHANGED <<runs, requests, running>>

\* lifespan after its yield: task.cancel()
lifespan_cancel ==
    /\ phase = "serving"
    /\ phase' = "stopping"
    /\ task' = [task EXCEPT !.pc = "cancelling"]
    /\ UNCHANGED <<runs, requests, running>>
    /\ UNCHANGED store

\* the CancelledError is raised in periodic_cleanup() at its await
task_cancelled ==
    /\ task.pc = "cancelling"
    /\ task' = [task EXCEPT !.pc = "cancelled"]
    /\ UNCHANGED <<phase, runs, requests, running>>
    /\ UNCHANGED store

\* "await task" of lifespan ends with the CancelledError, which is passed
lifespan_exit ==
    /\ phase = "stopping"
    /\ task.pc = "cancelled"
    /\ phase' = "stopped"
    /\ UNCHANGED <<task, runs, requests, running>>
    /\ UNCHANGED store

\* mutant of Due: the sleep ends at once
DueAtOnce == task.pc = "sleeping"

\* whether the sleep of the sweeper task is over
Due == task.pc = "sleeping" /\ now >= task.wake

\* one turn of the loop of periodic_cleanup: the sleep is over,
\* cleanup_cache() runs, and the task sleeps again
periodic_cleanup ==
    /\ Due
    /\ cleanup_cache
    /\ task' = Task("sleeping", now + SweepPeriod, task.count + 1)
    /\ runs' = [ id \in ArticleIds |-> IF id \in Ids(db) THEN runs[id] + 1 ELSE 0 ]
    /\ UNCHANGED <<phase, requests, running>>

\* the clock of a running process; the event loop wakes a task whose sleep is
\* over before the clock moves on
Elapse ==
    /\ phase # "startup"
    /\ ~Due
    /\ now + TickStep <= StartMinute + MaxUptime
    /\ now' = now + TickStep
    /\ UNCHANGED <<db, next_id, dir_exists, fs, linesep, started, issued, faults, ret>>
    /\ UNCHANGED host

\* GET /articles
list_articles == get_articles /\ Served

\* GET /articles/{article_id}
read_article(article_id, io) == get_article(article_id, io) /\ Served

\* GET /articles/{article_id}/edit
edit_article_form(admin_key, article_id, io) ==
    /\ IF validate_admin_key(admin_key)
       THEN get_article(article_id, io)
       ELSE io = "ok" /\ Forbidden("get", article_id)
    /\ Served

\* POST /articles
create_article(admin_key, title, content, io) ==
    /\ IF validate_admin_key(admin_key)
       THEN create_new_article(title, content, io)
       ELSE io = "ok" /\ Forbidden("create", 0)
    /\ Served

\* PUT /articles/{article_id}
update_article(admin_key, article_id, title, content, io) ==
    /\ IF validate_admin_key(admin_key)
       THEN update_article_db(article_id, title, content, io)
       ELSE io = "ok" /\ Forbidden("update", article_id)
    /\ Served

\* DELETE /articles/{article_id}
remove_article(admin_key, article_id, io) ==
    /\ IF validate_admin_key(admin_key)
       THEN delete_article_db(article_id, io)
       ELSE io = "ok" /\ Forbidden("delete", article_id)
    /\ Served

\* the archive the application starts from, and the form fields of its requests
AppArchives == { ArchiveOne }

AppTitles == { <<"a", "_">> }

AppContents == { <<10>> }

\* the disk of the application does not fail
AppOutcomes == { "ok" }

AppInit ==
    /\ HostInit
    /\ db = <<>>
    /\ next_id = 1
    /\ \E a \in AppArchives : dir_exists = a.exists /\ fs = a.files
    /\ linesep \in LineSeps
    /\ now = StartMinute
    /\ started = FALSE
    /\ issued = <<>>
    /\ faults = 0
    /\ ret = Ret("none", 0, "ok", "none", 0)

Startup == lifespan_startup

Shutdown == lifespan_cancel \/ task_cancelled \/ lifespan_exit

Sweeper == periodic_cleanup

ListAll == list_articles

Read == \E article_id \in ArticleIds, io \in AppOutcomes : read_article(article_id, io)

Edit == \E admin_key \in Cookies, article_id \in ArticleIds, io \in AppOutcomes :
            edit_article_form(admin_key, article_id, io)

Post == \E admin_key \in Cookies, title \in AppTitles, content \in AppContents,
           io \in AppOutcomes :
            create_article(admin_key, title, content, io)

Put == \E admin_key \in Cookies, article_id \in ArticleIds, title \in AppTitles,
          content \in AppContents, io \in AppOutcomes :
            update_article(admin_key, article_id, title, content, io)

Remove == \E admin_key \in Cookies, article_id \in ArticleIds, io \in AppOutcomes :
            remove_article(admin_key, article_id, io)

AppNext ==
    Startup \/ Shutdown \/ Sweeper \/ ListAll \/ Read \/ Edit \/ Post \/ Put
    \/ Remove \/ Elapse

AppSpec == AppInit /\ [][AppNext]_vars

---------------------------------------------------------------------------
(* The event loop: the routes as coroutines, one statement group at a time *)

\* mutant of Suspends: every statement group ends in an await
SuspendsEverywhere(pc) == TRUE

\* whether a coroutine that has come to pc gives the thread back to the event
\* loop: the routes and the store functions hold no await, so a route keeps
\* the thread until it has returned
Suspends(pc) == pc = "idle"

\* the event loop can run the coroutine h: no other coroutine holds the thread
CanRun(h) == phase = "serving" /\ running \in {"none", h}

\* the coroutine h has run up to the place and locals of r
Goes(h, r) ==
    /\ requests' = [requests EXCEPT ![h] = r]
    /\ running' = IF Suspends(r.pc) THEN "none" ELSE h
    /\ UNCHANGED <<phase, task, runs>>

\* the store variables a statement group leaves alone, besides db, fs and ret
Rest == <<dir_exists, linesep, now, started, faults>>

\* the event loop reads a request that passes validate_admin_key and
\* schedules the coroutine of its route
arrive(h, op, id, title, content) ==
    /\ phase = "serving"
    /\ running = "none"
    /\ requests[h] = NoRequest
    /\ requests' = [requests EXCEPT ![h] = Request(op, "ready", id, title, content, <<>>)]
    /\ UNCHANGED <<phase, task, runs, running>>
    /\ UNCHANGED store

\* create_new_article, lines 77-91: the name and the loop on os.path.exists
create_check(h) ==
    LET r == requests[h]
    IN  /\ r.op = "create" /\ r.pc = "ready" /\ CanRun(h)
        /\ next_id <= MaxId
        /\ Cardinality(DOMAIN fs) < MaxFiles
        /\ Goes(h, [r EXCEPT !.pc = "checked",
                             !.file_path = ResolvePath(fs, r.title, now)])
        /\ UNCHANGED store

\* create_new_article, lines 94-96: the file is written
create_write(h) ==
    LET r == requests[h]
    IN  /\ r.op = "create" /\ r.pc = "checked" /\ CanRun(h)
        /\ fs' = FileWritten(fs, r.file_path, WriteText(r.content, linesep))
        /\ Goes(h, [r EXCEPT !.pc = "written"])
        /\ UNCHANGED <<db, next_id, issued, ret>>
        /\ UNCHANGED Rest

\* create_new_article, lines 101-113: the Article is registered and returned
create_register(h) ==
    LET r == requests[h]
    IN  /\ r.op = "create" /\ r.pc = "written" /\ CanRun(h)
        /\ db' = Append(db, Article(next_id, r.title, r.content, now, now,
                                    r.file_path, now))
        /\ next_id' = next_id + 1
        /\ issued' = Append(issued, next_id)
        /\ ret' = Ret("create", next_id, "ok", "none", 0)
        /\ Goes(h, NoRequest)
        /\ UNCHANGED fs
        /\ UNCHANGED Rest

\* get_article, lines 182-195: the lookup and the load on demand
get_load(h) ==
    LET r == requests[h]
    IN  /\ r.op = "get" /\ r.pc = "ready" /\ CanRun(h)
        /\ IF ~Found(r.id)
           THEN /\ ret' = Ret("get", r.id, "notfound", "none", 0)
                /\ Goes(h, NoRequest)
                /\ UNCHANGED db
           ELSE LET i == IndexOf(r.id)
                    load == LoadOutcome(db[i], fs, "ok")
                IN  IF NeedsLoad(db[i]) /\ load.kind = "undecodable"
                    THEN /\ ret' = Ret("get", r.id, "raised", load.kind, 0)
                         /\ Goes(h, NoRequest)
                         /\ UNCHANGED db
                    ELSE /\ db' = IF NeedsLoad(db[i])
                                  THEN [db EXCEPT ![i].content = load.content]
                                  ELSE db
                         /\ Goes(h, [r EXCEPT !.pc = "loaded"])
                         /\ UNCHANGED ret
        /\ UNCHANGED <<next_id, issued, fs>>
        /\ UNCHANGED Rest

\* get_article, lines 198-199: last_accessed is set, the Article returned
get_touch(h) ==
    LET r == requests[h]
    IN  /\ r.op = "get" /\ r.pc = "loaded" /\ CanRun(h)
        /\ db' = IF Found(r.id)
                 THEN [db EXCEPT ![IndexOf(r.id)].last_accessed = now]
                 ELSE db
        /\ ret' = Ret("get", r.id, "ok", "none", 0)
        /\ Goes(h, NoRequest)
        /\ UNCHANGED <<next_id, issued, fs>>
        /\ UNCHANGED Rest

\* update_article_db, lines 119-124: the lookup and the four assignments
update_assign(h) ==
    LET r == requests[h]
    IN  /\ r.op = "update" /\ r.pc = "ready" /\ CanRun(h)
        /\ IF ~Found(r.id)
           THEN /\ ret' = Ret("update", r.id, "notfound", "none", 0)
                /\ Goes(h, NoRequest)
                /\ UNCHANGED db
           ELSE LET i == IndexOf(r.id)
                IN  /\ db' = [db EXCEPT ![i].title = r.title,
                                        ![i].content = r.content,
                                        ![i].updated_at = now,
                                        ![i].last_accessed = now]
                    /\ Goes(h, [r EXCEPT !.pc = "assigned",
                                         !.file_path = db[i].file_path])
                    /\ UNCHANGED ret
        /\ UNCHANGED <<next_id, issued, fs>>
        /\ UNCHANGED Rest

\* update_article_db, lines 127-136: the file is written, the Article returned
update_write(h) ==
    LET r == requests[h]
    IN  /\ r.op = "update" /\ r.pc = "assigned" /\ CanRun(h)
        /\ fs' = IF Truthy(r.file_path)
                 THEN FileWritten(fs, r.file_path, WriteText(r.content, linesep))
                 ELSE fs
        /\ ret' = Ret("update", r.id, "ok", "none", 0)
        /\ Goes(h, NoRequest)
        /\ UNCHANGED <<db, next_id, issued>>
        /\ UNCHANGED Rest

\* delete_article_db, lines 144-152: the lookup and os.remove
delete_unlink(h) ==
    LET r == requests[h]
    IN  /\ r.op = "delete" /\ r.pc = "ready" /\ CanRun(h)
        /\ IF ~Found(r.id)
           THEN /\ ret' = Ret("delete", r.id, "notfound", "none", 0)
                /\ Goes(h, NoRequest)
                /\ UNCHANGED fs
           ELSE LET path == db[IndexOf(r.id)].file_path
                IN  /\ fs' = IF Truthy(path) /\ PathExists(fs, path)
                             THEN FileRemoved(fs, path)
                             ELSE fs
                    /\ Goes(h, [r EXCEPT !.pc = "unlinked"])
                    /\ UNCHANGED ret
        /\ UNCHANGED <<db, next_id, issued>>
        /\ UNCHANGED Rest

\* delete_article_db, lines 155-157: db.remove(article)
delete_drop(h) ==
    LET r == requests[h]
    IN  /\ r.op = "delete" /\ r.pc = "unlinked" /\ CanRun(h)
        /\ db' = IF Found(r.id) THEN WithoutIndex(db, IndexOf(r.id)) ELSE db
        /\ ret' = Ret("delete", r.id, "ok", "none", 0)
        /\ Goes(h, NoRequest)
        /\ UNCHANGED <<next_id, issued, fs>>
        /\ UNCHANGED Rest

\* the sweeper task gets the thread when its sleep is over and no other
\* coroutine holds it; cleanup_cache holds no await
loop_cleanup == running = "none" /\ phase = "serving" /\ periodic_cleanup

\* the routes whose store function changes the store, and read_article
Routes == { "create", "get", "update", "delete" }

\* the ids the requests to the event loop name: the id of the scanned article
LoopIds == { 1 }

\* the clock of the event loop's process, up to the sweeper's second run
loop_elapse == Elapse /\ now' <= StartMinute + MaxElapsed

Arrive == \E h \in Handlers, op \in Routes, id \in LoopIds, title \in AppTitles,
             content \in AppContents :
              /\ arrive(h, op, IF op = "create" THEN 0 ELSE id,
                        IF op \in {"create", "update"} THEN title ELSE <<>>,
                        IF op \in {"create", "update"} THEN content ELSE <<>>)

CreateSteps == \E h \in Handlers : create_check(h) \/ create_write(h) \/ create_register(h)

GetSteps == \E h \in Handlers : get_load(h) \/ get_touch(h)

UpdateSteps == \E h \in Handlers : update_assign(h) \/ update_write(h)

DeleteSteps == \E h \in Handlers : delete_unlink(h) \/ delete_drop(h)

LoopNext ==
    Startup \/ Arrive \/ CreateSteps \/ GetSteps \/ UpdateSteps \/ DeleteSteps
    \/ loop_cleanup \/ loop_elapse

LoopSpec == AppInit /\ [][LoopNext]_vars

---------------------------------------------------------------------------
(* Properties *)

IssuedIds == { issued[k] : k \in DOMAIN issued }

\* a step of create_new_article that returned an Article
CreateStep == ret'.op = "create" /\ ret'.status = "ok" /\ Len(db') = Len(db) + 1

\* a step of a store function: ret holds its outcome, the clock stands
StoreStep ==
    /\ now' = now
    /\ db' # db \/ fs' # fs \/ ret' # ret \/ faults' # faults \/ started' # started

\* a step of cleanup_cache
SweepStep == ret'.op = "sweep" /\ now' = now

\* cleanup_cache would clear this article at time t
Stale(article, t) ==
    /\ article.file_path # <<>>
    /\ article.content # <<>>
    /\ t - article.last_accessed > CACHE_EXPIRY

\* C1: the ids issued by the store are strictly increasing in order of issue,
\* none is issued twice (also not after its article was deleted), every
\* article carries an issued id and no two articles carry the same id.
C1_IdsUnique ==
    /\ \A j, k \in DOMAIN issued : j < k => issued[j] < issued[k]
    /\ \A i, j \in DOMAIN db : i # j => db[i].id # db[j].id
    /\ Ids(db) \subseteq IssuedIds

\* an id was issued by a create after the article of an earlier id was deleted
C1_Witness ==
    /\ ret.op = "create" /\ ret.status = "ok"
    /\ Len(issued) = 2 /\ ret.id = issued[2]
    /\ issued[1] \notin Ids(db) /\ issued[2] \in Ids(db)

\* C2 as stated: for every content c, the empty string included, the
\* get_article that directly follows a successful create returns content c
\* and reads no file.
C2_GetAfterCreateAnyContent ==
    [][ \A io \in ReadOutcomes :
          (ret.op = "create" /\ ret.status = "ok" /\ get_article(ret.id, io))
          => /\ ret'.status = "ok"
             /\ ret'.load = "none"
             /\ db'[IndexOf(ret.id)].content = db[IndexOf(ret.id)].content ]_vars

\* C2 as amended: a successful create(t, c) registers an Article with content
\* c; the get_article that directly follows returns exactly c and reads no
\* file when c is not empty, and reads the file when c is empty.
C2_GetAfterCreate ==
    [][ /\ \A t \in Titles, c \in Contents :
             create_new_article(t, c, "ok")
             => db'[Len(db')].content = c /\ db'[Len(db')].id = ret'.id
        /\ \A io \in ReadOutcomes :
             (ret.op = "create" /\ ret.status = "ok" /\ get_article(ret.id, io))
             => IF db[IndexOf(ret.id)].content # <<>>
                THEN /\ ret'.status = "ok"
                     /\ ret'.load = "none"
                     /\ db'[IndexOf(ret.id)].content = db[IndexOf(ret.id)].content
                ELSE ret'.load # "none" ]_vars

\* a create with non-empty content has just returned, and get_article can be
\* called with the id it returned
C2_Witness ==
    /\ ret.op = "create" /\ ret.status = "ok"
    /\ Found(ret.id)
    /\ db[IndexOf(ret.id)].content # <<>>
    /\ ENABLED get_article(ret.id, "ok")

\* C3: every successful create writes to a path at which no file existed when
\* the call started, leaves every other file and every other article as they
\* were, and the new article's file_path differs from that of every other
\* article.
C3_FreshPath ==
    [][ CreateStep
        => LET article == db'[Len(db')]
           IN  /\ article.file_path \notin DOMAIN fs
               /\ article.file_path \in DOMAIN fs'
               /\ \A q \in DOMAIN fs : q \in DOMAIN fs' /\ fs'[q] = fs[q]
               /\ \A i \in DOMAIN db :
                     db'[i] = db[i] /\ db[i].file_path # article.file_path ]_vars

\* two articles whose titles have the same sanitized form were created, and
\* each has its own file on disk
C3_Witness ==
    /\ ret.op = "create" /\ ret.status = "ok"
    /\ Len(db) = 2
    /\ db[1].created_at = db[1].updated_at /\ db[2].created_at = db[2].updated_at
    /\ db[1].title # db[2].title
    /\ SafeTitle(db[1].title) = SafeTitle(db[2].title)
    /\ db[1].file_path # db[2].file_path
    /\ db[1].file_path \in DOMAIN fs /\ db[2].file_path \in DOMAIN fs
    /\ fs[db[1].file_path] # fs[db[2].file_path]

\* C4 as stated: delete_article(id) of a present id removes the record and,
\* when the backing file exists, removes the file from disk.
C4_DeleteRemovesFile ==
    [][ \A id \in ArticleIds, io \in RemoveOutcomes :
          (delete_article_db(id, io) /\ Found(id))
          => /\ id \notin Ids(db')
             /\ db[IndexOf(id)].file_path \notin DOMAIN fs' ]_vars

\* C4 as amended: delete_article(id) of a present id removes the record and
\* tries to remove the backing file: the file is gone when os.remove went
\* through and the disk is unchanged when it failed; an id once issued and no
\* longer in the store never comes back, and get_article reports it not found.
C4_Delete ==
    [][ /\ \A id \in ArticleIds, io \in RemoveOutcomes :
             (delete_article_db(id, io) /\ Found(id))
             => /\ id \notin Ids(db')
                /\ Len(db') = Len(db) - 1
                /\ io = "ok" => /\ db[IndexOf(id)].file_path \notin DOMAIN fs'
                                /\ \A q \in DOMAIN fs' : q \in DOMAIN fs /\ fs'[q] = fs[q]
                /\ io # "ok" => fs' = fs
        /\ \A id \in IssuedIds : id \notin Ids(db) => id \notin Ids(db')
        /\ \A id \in IssuedIds, io \in ReadOutcomes :
             (id \notin Ids(db) /\ get_article(id, io)) => ret'.status = "notfound"
      ]_vars

\* the only article was deleted and its file is gone from the disk
C4_Witness ==
    /\ ret.op = "delete" /\ ret.status = "ok"
    /\ ret.id \in IssuedIds /\ ret.id \notin Ids(db)
    /\ faults = 0
    /\ DOMAIN fs = {}

\* C5: a sweeper run clears the content of exactly the articles that have a
\* backing file, non-empty content and a last_accessed more than CACHE_EXPIRY
\* before now, and changes nothing else: not the other fields, the other
\* articles, the list, the id counter or the disk.
C5_SweepFrame ==
    [][ SweepStep
        => /\ Len(db') = Len(db)
           /\ \A i \in DOMAIN db :
                 db'[i] = IF /\ db[i].file_path # <<>>
                             /\ db[i].content # <<>>
                             /\ now - db[i].last_accessed > CACHE_EXPIRY
                          THEN [db[i] EXCEPT !.content = <<>>]
                          ELSE db[i]
           /\ UNCHANGED <<next_id, dir_exists, fs, issued>> ]_vars

\* a sweeper run cleared one article and kept the content of another that was
\* last accessed exactly CACHE_EXPIRY ago
C5_Witness ==
    /\ ret.op = "sweep" /\ ret.cleaned = 1
    /\ \E i, j \in DOMAIN db :
          /\ db[i].content = <<>> /\ now - db[i].last_accessed > CACHE_EXPIRY
          /\ db[j].content # <<>> /\ now - db[j].last_accessed = CACHE_EXPIRY

\* C6 as stated: a sweeper run that follows a sweeper run, with no get, create
\* or update between the two, leaves every article unchanged.
C6_SecondSweepNoOp ==
    [][ (ret.op = "sweep" /\ SweepStep) => db' = db ]_vars

\* C6 as amended: after a sweeper run no article is left that a run at the
\* same clock reading would clear: a second run at once changes nothing.
C6_Idempotent ==
    [][ SweepStep => \A i \in DOMAIN db' : ~Stale(db'[i], now') ]_vars

\* a sweeper run has cleared two articles
C6_Witness == ret.op = "sweep" /\ ret.cleaned = 2

\* C7: get_article on an article whose content is empty loads the file and
\* returns the file's current content (its bytes decoded as UTF-8); and what
\* get_article returns for an article is what a reload from the unchanged
\* file returns after an eviction.
C7_ReloadEqualsFile ==
    [][ \A id \in ArticleIds, io \in ReadOutcomes :
          (get_article(id, io) /\ Found(id) /\ ret'.status = "ok"
             /\ db[IndexOf(id)].file_path \in DOMAIN fs)
          => LET before == db[IndexOf(id)]
                 after == db'[IndexOf(id)]
                 file == fs[before.file_path]
             IN  /\ ret'.load = "loaded" => after.content = Utf8Decode(file)
                 /\ (ret'.load = "none" /\ after.content # LoadFailedPlaceholder
                       /\ after.content # MissingPlaceholder
                       /\ ReadText(file) # DecodeError)
                    => ReadText(file) = after.content ]_vars

\* C8: get_article for an existing id never fails: it returns the record,
\* with the "file missing" placeholder as content when the file is missing
\* and the "load failed" placeholder when the load failed in any other way.
C8_GetNeverFails ==
    [][ \A id \in ArticleIds, io \in ReadOutcomes :
          (get_article(id, io) /\ Found(id))
          => /\ ret'.status = "ok"
             /\ ret'.load = "missing"
                  => db'[IndexOf(id)].content = MissingPlaceholder
             /\ ret'.load \notin {"none", "loaded", "missing"}
                  => db'[IndexOf(id)].content = LoadFailedPlaceholder ]_vars

\* C9: a create whose file write fails adds no record and leaves every
\* article and the id counter as they were; the successful create that
\* follows it gets the id the failed one would have had.
C9_CreateFails ==
    [][ /\ (ret'.op = "create" /\ ret'.status = "error")
             => db' = db /\ next_id' = next_id /\ issued' = issued
        /\ (ret.op = "create" /\ ret.status = "error" /\ CreateStep)
             => ret'.id = next_id /\ db'[Len(db')].id = next_id ]_vars

\* a create has just failed
C9_Witness ==
    /\ ret.op = "create" /\ ret.status = "error"
    /\ faults = 1
    /\ ENABLED (\E t \in Titles, c \in Contents : create_new_article(t, c, "ok"))

\* C10 as stated: an update whose file write fails reports a failure and
\* leaves the new title, content, updated_at and last_accessed in the record;
\* memory and disk then differ, and the get_article that follows returns the
\* in-memory content and reads no file.
C10_UpdateFailsDiverges ==
    [][ /\ \A id \in ArticleIds, t \in Titles, c \in UpdateContents,
             io \in WriteOutcomes \ {"ok"} :
             (update_article_db(id, t, c, io) /\ Found(id))
             => LET after == db'[IndexOf(id)]
                IN  /\ ret'.status = "error"
                    /\ after.title = t /\ after.content = c
                    /\ after.updated_at = now /\ after.last_accessed = now
                    /\ after.file_path \in DOMAIN fs'
                         => ReadText(fs'[after.file_path]) # c
        /\ \A io \in ReadOutcomes :
             (ret.op = "update" /\ ret.status = "error" /\ get_article(ret.id, io))
             => /\ ret'.load = "none"
                /\ db'[IndexOf(ret.id)].content = db[IndexOf(ret.id)].content
      ]_vars

\* C10 as amended: an update whose file write fails reports a failure and
\* leaves the new title, content, updated_at and last_accessed in the record,
\* every other field and article as before; the get_article that follows
\* returns the in-memory content and reads no file when that content is not
\* empty, and reads the file when it is empty.
C10_UpdateFails ==
    [][ /\ \A id \in ArticleIds, t \in Titles, c \in UpdateContents,
             io \in WriteOutcomes \ {"ok"} :
             (update_article_db(id, t, c, io) /\ Found(id))
             => LET i == IndexOf(id)
                IN  /\ ret'.status = "error"
                    /\ db' = [db EXCEPT ![i].title = t, ![i].content = c,
                                        ![i].updated_at = now,
                                        ![i].last_accessed = now]
        /\ \A io \in ReadOutcomes :
             (ret.op = "update" /\ ret.status = "error" /\ get_article(ret.id, io))
             => IF db[IndexOf(ret.id)].content # <<>>
                THEN /\ ret'.status = "ok"
                     /\ ret'.load = "none"
                     /\ db'[IndexOf(ret.id)].content = db[IndexOf(ret.id)].content
                ELSE ret'.load # "none"
      ]_vars

\* an update has just failed, and the record holds content and a title that
\* the file on disk does not
C10_Witness ==
    /\ ret.op = "update" /\ ret.status = "error"
    /\ Found(ret.id)
    /\ LET article == db[IndexOf(ret.id)]
       IN  /\ article.content # <<>>
           /\ article.updated_at = now
           /\ article.file_path \in DOMAIN fs
           /\ ReadText(fs[article.file_path]) # article.content
    /\ ENABLED get_article(ret.id, "ok")

\* the paths the articles refer to
Referenced(articles) == { articles[i].file_path : i \in DOMAIN articles }

\* the files on disk that no article refers to
Orphans(files, articles) == DOMAIN files \ Referenced(articles)

\* C11: delete_article of an existing id never fails and always removes the
\* record, leaving the other records as they were; when removing the file
\* fails the disk is unchanged, the file is still there and no article refers
\* to it; and no create, successful or not, changes a file that no article
\* refers to or gives its path to the new article.
C11_DeleteOrphan ==
    [][ /\ \A id \in ArticleIds, io \in RemoveOutcomes :
             (delete_article_db(id, io) /\ Found(id))
             => /\ ret'.status = "ok"
                /\ id \notin Ids(db')
                /\ Len(db') = Len(db) - 1
                /\ \A i \in DOMAIN db :
                      db[i].id # id => \E j \in DOMAIN db' : db'[j] = db[i]
                /\ io = "remove_fails"
                     => /\ fs' = fs
                        /\ db[IndexOf(id)].file_path \in DOMAIN fs'
                        /\ db[IndexOf(id)].file_path \in Orphans(fs', db')
        /\ \A t \in Titles, c \in Contents, io \in WriteOutcomes :
             create_new_article(t, c, io)
             => \A q \in Orphans(fs, db) :
                   /\ q \in DOMAIN fs' /\ fs'[q] = fs[q]
                   /\ q \in Orphans(fs', db')
      ]_vars

\* the article of id 1 wrote archive/a_.md and was deleted while its file
\* stayed; the create that followed, of a title with the sanitized form "a_",
\* took another path and left that file as it was
C11_Witness ==
    /\ ret.op = "create" /\ ret.status = "ok"
    /\ issued = <<1, 2>> /\ Ids(db) = {2}
    /\ TakenPath \in Orphans(fs, db)
    /\ fs[TakenPath] \in { <<10>>, <<13>> }
    /\ SafeTitle(db[1].title) \o MdExt = Basename(TakenPath)
    /\ db[1].file_path # TakenPath

\* C12: for an id that no article carries, get_article and update_article
\* return the not-found result and delete_article does nothing; in the three
\* cases the list of articles, the id counter, the ids issued and every file
\* on disk are unchanged.
C12_NotFoundFrame ==
    [][ \A id \in ArticleIds :
          id \notin Ids(db)
          => /\ \A io \in ReadOutcomes :
                   get_article(id, io)
                   => /\ ret'.status = "notfound"
                      /\ UNCHANGED <<db, next_id, issued, fs, dir_exists>>
             /\ \A t \in Titles, c \in UpdateContents, io \in WriteOutcomes :
                   update_article_db(id, t, c, io)
                   => /\ ret'.status = "notfound"
                      /\ UNCHANGED <<db, next_id, issued, fs, dir_exists>>
             /\ \A io \in RemoveOutcomes :
                   delete_article_db(id, io)
                   => /\ ret'.status = "notfound"
                      /\ UNCHANGED <<db, next_id, issued, fs, dir_exists>>
      ]_vars

\* an update was called with an id that was issued and deleted, while another
\* article and its file exist
C12_Witness ==
    /\ ret.op = "update" /\ ret.status = "notfound"
    /\ ret.id \in IssuedIds /\ ret.id \notin Ids(db)
    /\ db # <<>>
    /\ \E i \in DOMAIN db : db[i].file_path \in DOMAIN fs

\* C15: in every reachable state, every article whose backing file exists has
\* in-memory content that is empty or equal to the content of the file (its
\* bytes decoded as UTF-8, with or without the translation of line ends).
C15_ContentCachesFile ==
    \A i \in DOMAIN db :
        (Truthy(db[i].file_path) /\ db[i].file_path \in DOMAIN fs)
        => \/ db[i].content = <<>>
           \/ db[i].content = Utf8Decode(fs[db[i].file_path])
           \/ db[i].content = ReadText(fs[db[i].file_path])

\* C16: last_accessed of an article never decreases; a step changes it only
\* when it is a get_article or an update_article of that article, and then
\* to the current time; every successful get_article (with or without a
\* load), every update_article that finds the article (also when its write
\* fails) and every create set it to the current time; get_articles and the
\* sweeper leave it as it was in every article.
C16_LastAccessed ==
    [][ /\ \A i \in DOMAIN db, j \in DOMAIN db' :
             db[i].id = db'[j].id
             => /\ db'[j].last_accessed >= db[i].last_accessed
                /\ db'[j].last_accessed # db[i].last_accessed
                     => /\ ret'.op \in {"get", "update"}
                        /\ ret'.id = db[i].id
                        /\ db'[j].last_accessed = now
        /\ (StoreStep /\ ret'.op = "get" /\ ret'.status = "ok")
             => \E j \in DOMAIN db' :
                   db'[j].id = ret'.id /\ db'[j].last_accessed = now
        /\ (StoreStep /\ ret'.op = "update" /\ ret'.status \in {"ok", "error"})
             => \E j \in DOMAIN db' :
                   db'[j].id = ret'.id /\ db'[j].last_accessed = now
        /\ CreateStep => db'[Len(db')].last_accessed = now
        /\ (StoreStep /\ ret'.op \in {"list", "sweep"})
             => /\ Len(db') = Len(db)
                /\ \A i \in DOMAIN db : db'[i].last_accessed = db[i].last_accessed
      ]_vars

\* a get_article that loaded nothing has just set last_accessed of an article
\* that was created or scanned at an earlier time
C16_Witness ==
    /\ ret.op = "get" /\ ret.status = "ok" /\ ret.load = "none"
    /\ Found(ret.id)
    /\ LET article == db[IndexOf(ret.id)]
       IN  /\ article.last_accessed = now
           /\ article.created_at < now
           /\ article.updated_at < now


\* the characters create_new_article keeps in a file name
KeptChars == AlnumChars \cup { " ", "-", "_" }

\* C14: for every successful create_article(t, c) the file holds exactly the
\* UTF-8 bytes of c; its name is t with every character that is not
\* alphanumeric, a space, a hyphen or an underscore replaced by one underscore,
\* then ".md", with the date and a counter in between only when the plain name
\* was taken; the name holds no path separator and the file lies directly in
\* the archive directory.
C14_FileHoldsContent ==
    [][ \A t \in Titles, c \in Contents :
          create_new_article(t, c, "ok")
          => LET article == db'[Len(db')]
                 name == Tail(article.file_path)
                 safe == [ i \in DOMAIN t |->
                             IF t[i] \in KeptChars THEN t[i] ELSE "_" ]
             IN  /\ fs'[article.file_path] = Utf8Encode(c)
                 /\ Len(safe) = Len(t)
                 /\ IF (<<ARCHIVE_DIR>> \o safe \o MdExt) \in DOMAIN fs
                    THEN \E k \in 1..MaxFiles :
                            name = safe \o <<"_">> \o DateSuffix(now) \o <<"_">>
                                   \o Str(k) \o MdExt
                    ELSE name = safe \o MdExt
                 /\ \A i \in DOMAIN name : name[i] \notin { "/", "\\" }
                 /\ Head(article.file_path) = ARCHIVE_DIR ]_vars

\* C20: update_article on an existing article leaves its id, created_at and
\* file_path, every other article and every other file as they were, adds and
\* removes no file, sets title, content, updated_at and last_accessed, and
\* when the write succeeds the file holds exactly the UTF-8 bytes of the new
\* content.
C20_UpdateFrame ==
    [][ \A id \in ArticleIds, t \in Titles, c \in UpdateContents,
          io \in WriteOutcomes :
          (update_article_db(id, t, c, io) /\ Found(id))
          => LET i == IndexOf(id)
                 path == db[i].file_path
             IN  /\ db' = [db EXCEPT ![i].title = t, ![i].content = c,
                                     ![i].updated_at = now,
                                     ![i].last_accessed = now]
                 /\ UNCHANGED <<next_id, issued, dir_exists>>
                 /\ DOMAIN fs' = DOMAIN fs \cup {path}
                 /\ \A q \in DOMAIN fs : q # path => fs'[q] = fs[q]
                 /\ io = "ok" => fs'[path] = Utf8Encode(c) ]_vars


\* a step that ran the body of create_new_article, update_article_db or
\* delete_article_db
WriteStep ==
    /\ StoreStep
    /\ ret'.op \in {"create", "update", "delete"}
    /\ ret'.status # "forbidden"

\* C13: a request to the create, update or delete route whose cookie is not
\* the secret of the process is rejected and leaves the articles, the id
\* counter and the files as they were; and every step that runs the store's
\* create, update or delete is a step of one of these routes for a request
\* that carries the secret.
C13_AdminOnly ==
    [][ /\ \A admin_key \in Cookies \ {ADMIN_KEY} :
             /\ \A t \in AppTitles, c \in AppContents :
                   create_article(admin_key, t, c, "ok")
                   => /\ ret'.status = "forbidden"
                      /\ UNCHANGED <<db, next_id, issued, fs, dir_exists>>
             /\ \A id \in ArticleIds, t \in AppTitles, c \in AppContents :
                   update_article(admin_key, id, t, c, "ok")
                   => /\ ret'.status = "forbidden"
                      /\ UNCHANGED <<db, next_id, issued, fs, dir_exists>>
             /\ \A id \in ArticleIds :
                   remove_article(admin_key, id, "ok")
                   => /\ ret'.status = "forbidden"
                      /\ UNCHANGED <<db, next_id, issued, fs, dir_exists>>
        /\ WriteStep
             => \/ \E t \in AppTitles, c \in AppContents :
                      create_article(ADMIN_KEY, t, c, "ok")
                \/ \E id \in ArticleIds, t \in AppTitles, c \in AppContents :
                      update_article(ADMIN_KEY, id, t, c, "ok")
                \/ \E id \in ArticleIds : remove_article(ADMIN_KEY, id, "ok")
      ]_vars

\* a delete request with a wrong cookie for an article that exists has just
\* been rejected, and the article and its file are still there
C13_Witness ==
    /\ ret.op = "delete" /\ ret.status = "forbidden"
    /\ Found(ret.id)
    /\ db[IndexOf(ret.id)].file_path \in DOMAIN fs
    /\ db[IndexOf(ret.id)].content # <<>>

\* a step of the sweeper task that ran cleanup_cache
SweeperStep == task'.count = task.count + 1

\* the coroutine of a route is between two statement groups of a store function
Mid(r) == r.pc \notin {"idle", "ready"}

\* C17: every store operation runs to completion: a route that is between
\* two steps of its store function holds the thread, no other route is between
\* two steps of its own, and the next step that changes anything but the clock
\* is its own; no two create_article calls have both passed the file-existence
\* check before either writes, and the path a create writes to is still free
\* when it writes; no sweeper run happens while a route is between two steps.
C17_RunToCompletion ==
    [][ /\ \A h \in Handlers :
             Mid(requests[h])
             => /\ running = h
                /\ \A g \in Handlers \ {h} : ~Mid(requests[g])
                /\ \/ requests'[h] # requests[h]
                   \/ UNCHANGED <<db, next_id, fs, ret, requests, task, running>>
        /\ \A h \in Handlers : Mid(requests'[h]) => running' = h
        /\ \A g, h \in Handlers :
             (requests'[g].pc = "checked" /\ requests'[h].pc = "checked") => g = h
        /\ \A h \in Handlers :
             (requests[h].pc = "checked" /\ requests'[h].pc = "written")
             => requests[h].file_path \notin DOMAIN fs
        /\ SweeperStep
             => \A h \in Handlers : ~Mid(requests[h]) /\ requests'[h] = requests[h]
      ]_vars

\* a create has passed the file-existence check and has not written yet,
\* while a second create of the same title is waiting for the thread and the
\* sleep of the sweeper task is over
C17_Witness ==
    \E g, h \in Handlers :
        /\ g # h
        /\ requests[h].op = "create" /\ requests[h].pc = "checked"
        /\ requests[g].op = "create" /\ requests[g].pc = "ready"
        /\ requests[g].title = requests[h].title
        /\ running = h
        /\ Due

\* where the application stands: before the scan nothing has been served;
\* while it serves, the scan is done and the sweeper task sleeps, never
\* overdue by a whole step of the clock; once shutdown has begun the task is
\* being cancelled and shutdown can go on; after shutdown the task is ended
Lifecycle ==
    /\ phase = "startup"
         => ~started /\ ret.op = "none" /\ db = <<>> /\ task.pc = "none"
    /\ phase = "serving"
         => started /\ task.pc = "sleeping" /\ now < task.wake + TickStep
    /\ phase = "stopping"
         => /\ task.pc \in {"cancelling", "cancelled"}
            /\ ENABLED (task_cancelled \/ lifespan_exit)
    /\ phase = "stopped" => task.pc = "cancelled"

\* C18: the startup scan runs exactly once, before any request is served; the
\* first sweeper run comes one period after startup and every later one one
\* period after the run before it; once shutdown has begun the sweeper task
\* is cancelled, shutdown completes and no sweeper run happens any more.
C18_Lifecycle ==
    [][ /\ Lifecycle /\ Lifecycle'
        /\ (ret'.op = "scan" /\ ret' # ret)
             => /\ phase = "startup" /\ phase' = "serving"
                /\ ~started /\ started'
                /\ task' = Task("sleeping", now + SweepPeriod, 0)
        /\ phase # "startup"
             => phase' # "startup" /\ (ret' # ret => ret'.op # "scan")
        /\ (StoreStep /\ ret'.op # "scan") => phase = "serving" /\ started
        /\ SweeperStep
             => /\ phase = "serving" /\ phase' = "serving"
                /\ ret'.op = "sweep"
                /\ now >= task.wake
                /\ now >= StartMinute + (task.count + 1) * SweepPeriod
                /\ now < StartMinute + (task.count + 1) * SweepPeriod
                         + (task.count + 1) * TickStep
                /\ task'.wake = now + SweepPeriod
        /\ (ret'.op = "sweep" /\ StoreStep) => SweeperStep
        /\ phase \in {"stopping", "stopped"}
             => /\ phase' \in {"stopping", "stopped"}
                /\ UNCHANGED <<db, fs, ret, task.count>>
      ]_vars

\* the sweeper has run twice, one period apart, and shutdown has completed
\* while its third run was due
C18_Witness ==
    /\ phase = "stopped"
    /\ task.count = 2
    /\ task.wake = StartMinute + 3 * SweepPeriod
    /\ now >= task.wake
    /\ ret.op = "sweep"

\* C19 as stated: an article with a backing file that has not been accessed
\* since the last two sweeper runs has no content in memory.
C19_ClearedBySecondRun ==
    \A i \in DOMAIN db :
        (Truthy(db[i].file_path) /\ runs[db[i].id] >= 2) => db[i].content = <<>>

\* C19 as amended: the sweeper clears the content of an article with a backing
\* file at its first run that reads the clock more than CACHE_EXPIRY after the
\* article's last access: a loaded article that was not accessed since the
\* sweeper's last run was accessed at most CACHE_EXPIRY before that run, and an
\* article that was not accessed since the last three runs has no content.
C19_ClearedByThirdRun ==
    \A i \in DOMAIN db :
        (Truthy(db[i].file_path) /\ Truthy(db[i].content))
        => /\ runs[db[i].id] <= 2
           /\ (runs[db[i].id] >= 1 /\ task.pc = "sleeping")
                => (task.wake - SweepPeriod) - db[i].last_accessed <= CACHE_EXPIRY

\* an article was accessed at the clock reading of a sweeper run, just before
\* that run; the next run left its content in memory and the third run has
\* just cleared it
C19_Witness ==
    /\ ret.op = "sweep" /\ ret.cleaned = 1
    /\ task.count = 3
    /\ \E i \in DOMAIN db :
          /\ runs[db[i].id] = 3
          /\ db[i].content = <<>>
          /\ db[i].file_path \in DOMAIN fs
          /\ now - db[i].last_accessed = 2 * CACHE_EXPIRY


============================================================================
